---- MODULE Spec2Model ----
(***************************************************************************)
(* The ColdFusion language server: main() (startup and configuration) and  *)
(* GlobalState::run (the single-threaded event loop with its request and   *)
(* notification dispatch), from crates/coldfusion-ls/src/main.rs.          *)
(*                                                                         *)
(* The modules config, global_state, dispatcher and handlers are declared  *)
(* in main.rs but their sources are not part of the tree; the definitions  *)
(* that stand for them follow the written specification of the server.     *)
(***************************************************************************)
EXTENDS Integers, Sequences, FiniteSets, TLC

\* ---------------------------------------------------------------- bounds
\* Messages the client sends over the whole run.
MaxMsgs == 3
\* Messages that may wait in the inbound channel at one time.
MaxQueue == 2
\* Request identifiers the client draws from: 1 .. MaxId.
MaxId == 2

\* ------------------------------------------------------ protocol methods
Shutdown == "shutdown"
Completion == "textDocument/completion"
Cancel == "$/cancelRequest"
DidOpenTextDocument == "textDocument/didOpen"
DidCloseTextDocument == "textDocument/didClose"
DidChangeTextDocument == "textDocument/didChange"
ShowMessage == "window/showMessage"
Exit == "exit"
\* A method no binding is registered for.
Unregistered == "workspace/unregistered"

RequestIds == 1 .. MaxId

\* A payload is abstracted to whether it decodes into the type the claiming
\* binding declares, and (for $/cancelRequest) the request id it carries.
Params(wf, id) == [wellFormed |-> wf, id |-> id]

Request(id, method, wf) ==
    [kind |-> "Request", id |-> id, method |-> method, params |-> Params(wf, 0)]

Notification(method, wf, id) ==
    [kind |-> "Notification", id |-> 0, method |-> method, params |-> Params(wf, id)]

\* An inbound Response (an answer to a request the server sent to the client).
ClientResponse(id) ==
    [kind |-> "Response", id |-> id, method |-> "", params |-> Params(TRUE, 0)]

\* Option::None for a message slot.
NoMessage == [kind |-> "None", id |-> 0, method |-> "", params |-> Params(TRUE, 0)]

Requests ==
    { Request(id, m, wf) : id \in RequestIds, m \in {Shutdown, Completion}, wf \in BOOLEAN }
    \cup { Request(id, Unregistered, TRUE) : id \in RequestIds }

Notifications ==
    { Notification(Exit, TRUE, 0) }
    \cup { Notification(Cancel, TRUE, id) : id \in RequestIds }
    \cup { Notification(Cancel, FALSE, 0) }
    \cup { Notification(DidOpenTextDocument, wf, 0) : wf \in BOOLEAN }
    \cup { Notification(m, TRUE, 0) :
             m \in {DidCloseTextDocument, DidChangeTextDocument, Unregistered} }

Messages == Requests \cup Notifications \cup { ClientResponse(1) }

\* ------------------------------------------------------ outbound messages
\* lsp_server::Response::new_ok / new_err and the ShowMessage notification.
ResponseOk(id) == [kind |-> "Response", id |-> id, code |-> "Ok"]
ResponseErr(id, code) == [kind |-> "Response", id |-> id, code |-> code]
ShowMessageWarning == [kind |-> "Notification", id |-> 0, code |-> ShowMessage]

\* What a handler can report: success or a failure.
HandlerOutcomes == {"Ok", "InternalError"}

\* ------------------------------------------------------------- Config
\* The keys a client may put in initialization_options.
OptionKeys == {"a", "b"}
\* A value the option's type accepts, and one it rejects.
GoodValue == "on"
BadValue == "malformed"
DefaultValue == "default"

\* serde_json::from_value for one option value.
ValueDecodes(v) == v # BadValue

\* Config::new(root_path, capabilities, workspace_roots): the dynamic
\* options start at their defaults.
ConfigNew(root_path, workspace_roots) ==
    [root_path |-> root_path,
     workspace_roots |-> workspace_roots,
     dynamic_options |-> [k \in OptionKeys |-> DefaultValue]]

\* Config::update(json): all-or-nothing.  Every key must decode; only then
\* is the configuration replaced.
ConfigUpdate(config, json) ==
    IF \A k \in DOMAIN json : ValueDecodes(json[k])
    THEN [ok |-> TRUE,
          config |-> [config EXCEPT !.dynamic_options =
                         [k \in OptionKeys |->
                             IF k \in DOMAIN json THEN json[k] ELSE @[k]]]]
    ELSE [ok |-> FALSE, config |-> config]

\* -------------------------------------------------------- GlobalState
\* The aggregate owned by the loop.  req_queue is the registry of
\* outstanding (incoming) requests, sender the outbound channel; calls is
\* the list of handlers invoked while the current message is handled.
GlobalStateNew(sender, config) ==
    [config |-> config,
     shutdown_requested |-> FALSE,
     req_queue |-> {},
     sender |-> sender,
     calls |-> <<>>]

Entry(id, method) == [id |-> id, method |-> method]

\* register_request that adds the entry without replacing one of the
\* same id.
register_request_append(gs, req) ==
    [gs EXCEPT !.req_queue = @ \cup { Entry(req.id, req.method) }]

\* GlobalState::register_request: the registry is a map keyed by id, so an
\* entry under the same id is replaced.
register_request(gs, req) ==
    [gs EXCEPT !.req_queue =
        { e \in @ : e.id # req.id } \cup { Entry(req.id, req.method) }]

\* GlobalState::send: put a message on the outbound channel.
send(gs, msg) == [gs EXCEPT !.sender = Append(@, msg)]

\* GlobalState::respond: complete the outstanding entry of the response's
\* id and send the response; a response whose request is no longer
\* outstanding is discarded.
respond(gs, response) ==
    IF \E e \in gs.req_queue : e.id = response.id
    THEN send([gs EXCEPT !.req_queue = { e \in @ : e.id # response.id }], response)
    ELSE gs

\* GlobalState::complete_request: the server sends no requests of its own,
\* so an inbound Response matches nothing and is dropped.
complete_request(gs, resp) == gs

\* ------------------------------------------------------------ handlers
\* ShutdownHandler with the flag flipped instead of set.
ShutdownHandler_toggle(gs, req) ==
    [gs |-> [gs EXCEPT !.shutdown_requested = ~@], outcome |-> "Ok"]

\* The closure registered for Shutdown: sets the flag and returns Ok(()).
ShutdownHandler(gs, req) ==
    [gs |-> [gs EXCEPT !.shutdown_requested = TRUE], outcome |-> "Ok"]

\* handlers::request::handle_completion: reads the state, reports a
\* completion list or a failure.
handle_completion(gs, req, outcome) == [gs |-> gs, outcome |-> outcome]

\* handlers::notifications::handle_cancel: removes the registry entry of
\* the cancelled id if there is one.
handle_cancel(gs, n) ==
    [gs |-> [gs EXCEPT !.req_queue = { e \in @ : e.id # n.params.id }],
     outcome |-> "Ok"]

\* handle_did_open/close/change_text_document: document synchronisation,
\* which touches none of the state modelled here; may report a failure.
handle_text_document(gs, n, outcome) == [gs |-> gs, outcome |-> outcome]

\* --------------------------------------------------------- dispatchers
\* The call f(global_state, params) of a registered handler f.
Invoke(f, gs, msg, outcome) ==
    CASE f = "ShutdownHandler" -> ShutdownHandler(gs, msg)
      [] f = "handle_completion" -> handle_completion(gs, msg, outcome)
      [] f = "handle_cancel" -> handle_cancel(gs, msg)
      [] OTHER -> handle_text_document(gs, msg, outcome)

RequestDispatcher(req, gs) == [req |-> req, global_state |-> gs]

\* The Response built from what a request handler returned.
result_to_response(id, outcome) ==
    IF outcome = "Ok" THEN ResponseOk(id) ELSE ResponseErr(id, outcome)

\* RequestDispatcher::on_sync_mut::<R>(f): claims the request if its
\* method is R's, decodes the payload, runs f and responds.
on_sync_mut(d, method, f, outcome) ==
    IF d.req = NoMessage \/ d.req.method # method
    THEN d
    ELSE LET req == d.req
             gs == d.global_state
         IN  IF ~req.params.wellFormed
             THEN RequestDispatcher(NoMessage,
                      respond(gs, ResponseErr(req.id, "InvalidParams")))
             ELSE LET r == Invoke(f, [gs EXCEPT !.calls = Append(@, f)], req, outcome)
                  IN  RequestDispatcher(NoMessage,
                          respond(r.gs, result_to_response(req.id, r.outcome)))

\* RequestDispatcher::finish: an unclaimed request is logged and dropped.
finish(d) == d.global_state

NoError == "None"

NotificationDispatcher(n, gs, error) ==
    [notification |-> n, global_state |-> gs, error |-> error]

\* NotificationDispatcher::on_sync_mut::<N>(f): claims the notification if
\* its method is N's, decodes the payload and runs f; a decode failure or
\* a failure of f is the Err the caller receives.
notif_on_sync_mut(d, method, f, outcome) ==
    IF d.notification = NoMessage \/ d.notification.method # method
    THEN d
    ELSE LET n == d.notification
             gs == d.global_state
         IN  IF ~n.params.wellFormed
             THEN NotificationDispatcher(NoMessage, gs, "DecodeError")
             ELSE LET r == Invoke(f, [gs EXCEPT !.calls = Append(@, f)], n, outcome)
                  IN  NotificationDispatcher(NoMessage, r.gs,
                          IF r.outcome = "Ok" THEN NoError ELSE "HandlerError")

\* Try that drops an Err and goes on to the next binding.
Try_dropping(d, method, f, outcome) ==
    notif_on_sync_mut([d EXCEPT !.error = NoError], method, f, outcome)

\* The ? after each on_sync_mut call: an Err ends on_notification there.
Try(d, method, f, outcome) ==
    IF d.error # NoError THEN d ELSE notif_on_sync_mut(d, method, f, outcome)

\* NotificationDispatcher::finish: an unclaimed notification is logged.
notif_finish(d) == [gs |-> d.global_state, error |-> d.error]

\* ------------------------------------------- GlobalState (main.rs part)
\* on_request without the shutdown guard.
ShutdownGuard_absent(d) == d

\* ShutdownGuard answering through send, leaving the entry outstanding.
ShutdownGuard_send(d) ==
    IF d.req # NoMessage /\ d.global_state.shutdown_requested
    THEN [d EXCEPT !.global_state = send(@, ResponseErr(d.req.id, "InvalidRequest"))]
    ELSE d

\* The match after the Shutdown binding: a request still unclaimed while
\* shutdown_requested is set is answered with InvalidRequest.  The arm has
\* no return, so the dispatcher keeps the request.
ShutdownGuard(d) ==
    IF d.req # NoMessage /\ d.global_state.shutdown_requested
    THEN [d EXCEPT !.global_state = respond(@, ResponseErr(d.req.id, "InvalidRequest"))]
    ELSE d

\* on_request with the shutdown guard ahead of the Shutdown binding.
on_request_guard_first(gs, req, outcome) ==
    LET d0 == RequestDispatcher(req, gs)
        d1 == ShutdownGuard(d0)
        d2 == on_sync_mut(d1, Shutdown, "ShutdownHandler", outcome)
        d3 == on_sync_mut(d2, Completion, "handle_completion", outcome)
    IN  finish(d3)

\* GlobalState::on_request
on_request(gs, req, outcome) ==
    LET d0 == RequestDispatcher(req, gs)
        d1 == on_sync_mut(d0, Shutdown, "ShutdownHandler", outcome)
        d2 == ShutdownGuard(d1)
        d3 == on_sync_mut(d2, Completion, "handle_completion", outcome)
    IN  finish(d3)

\* on_new_request without the call of register_request.
on_new_request_unregistered(gs, req, outcome) == on_request(gs, req, outcome)

\* GlobalState::on_new_request
on_new_request(gs, req, outcome) ==
    on_request(register_request(gs, req), req, outcome)

\* on_notification with Cancel bound to a text-document handler.
on_notification_miswired(gs, n, outcome) ==
    LET d0 == NotificationDispatcher(n, gs, NoError)
        d1 == Try(d0, Cancel, "handle_did_open_text_document", outcome)
        d2 == Try(d1, DidOpenTextDocument, "handle_did_open_text_document", outcome)
        d3 == Try(d2, DidCloseTextDocument, "handle_did_close_text_document", outcome)
        d4 == Try(d3, DidChangeTextDocument, "handle_did_change_text_document", outcome)
    IN  notif_finish(d4)

\* on_notification returning an error for a notification no binding took.
on_notification_strict(gs, n, outcome) ==
    LET d0 == NotificationDispatcher(n, gs, NoError)
        d1 == Try(d0, Cancel, "handle_cancel", outcome)
        d2 == Try(d1, DidOpenTextDocument, "handle_did_open_text_document", outcome)
        d3 == Try(d2, DidCloseTextDocument, "handle_did_close_text_document", outcome)
        d4 == Try(d3, DidChangeTextDocument, "handle_did_change_text_document", outcome)
    IN  IF d4.notification # NoMessage
        THEN [gs |-> d4.global_state, error |-> "UnhandledNotification"]
        ELSE notif_finish(d4)

\* on_notification with the didOpen and didClose handlers exchanged.
on_notification_swapped(gs, n, outcome) ==
    LET d0 == NotificationDispatcher(n, gs, NoError)
        d1 == Try(d0, Cancel, "handle_cancel", outcome)
        d2 == Try(d1, DidOpenTextDocument, "handle_did_close_text_document", outcome)
        d3 == Try(d2, DidCloseTextDocument, "handle_did_open_text_document", outcome)
        d4 == Try(d3, DidChangeTextDocument, "handle_did_change_text_document", outcome)
    IN  notif_finish(d4)

\* on_notification answering a failed notification with an error Response.
on_notification_answering(gs, n, outcome) ==
    LET d0 == NotificationDispatcher(n, gs, NoError)
        d1 == Try(d0, Cancel, "handle_cancel", outcome)
        d2 == Try(d1, DidOpenTextDocument, "handle_did_open_text_document", outcome)
        d3 == Try(d2, DidCloseTextDocument, "handle_did_close_text_document", outcome)
        d4 == Try(d3, DidChangeTextDocument, "handle_did_change_text_document", outcome)
    IN  IF d4.error = NoError
        THEN notif_finish(d4)
        ELSE [gs |-> send(d4.global_state, ResponseErr(n.id, d4.error)),
              error |-> d4.error]

\* GlobalState::on_notification
on_notification(gs, n, outcome) ==
    LET d0 == NotificationDispatcher(n, gs, NoError)
        d1 == Try(d0, Cancel, "handle_cancel", outcome)
        d2 == Try(d1, DidOpenTextDocument, "handle_did_open_text_document", outcome)
        d3 == Try(d2, DidCloseTextDocument, "handle_did_close_text_document", outcome)
        d4 == Try(d3, DidChangeTextDocument, "handle_did_change_text_document", outcome)
    IN  notif_finish(d4)

\* handle_event dropping the Result of on_notification.
handle_event_ignoring(gs, msg, outcome) ==
    CASE msg.kind = "Request" ->
            [gs |-> on_new_request(gs, msg, outcome), error |-> NoError]
      [] msg.kind = "Notification" ->
            [gs |-> on_notification(gs, msg, outcome).gs, error |-> NoError]
      [] OTHER -> [gs |-> complete_request(gs, msg), error |-> NoError]

\* GlobalState::handle_event
handle_event(gs, msg, outcome) ==
    CASE msg.kind = "Request" ->
            [gs |-> on_new_request(gs, msg, outcome), error |-> NoError]
      [] msg.kind = "Notification" -> on_notification(gs, msg, outcome)
      [] OTHER -> [gs |-> complete_request(gs, msg), error |-> NoError]

\* IsExit that matches nothing, so exit is dispatched like any notification.
IsExit_never(msg) == FALSE

\* The test at the top of the loop body of run.
IsExit(msg) == msg.kind = "Notification" /\ msg.method = Exit

\* ----------------------------------------------------------------- main
\* What the client may send as InitializeParams.
NoUri == "none"
RootUris == {NoUri, "/project"}
FolderLists == {<<>>, <<"/w1">>, <<"untitled:w">>, <<"/w1", "/w2">>}
WorkspaceFolders ==
    {[some |-> FALSE, folders |-> <<>>]}
    \cup {[some |-> TRUE, folders |-> f] : f \in FolderLists}
Jsons ==
    UNION {[keys -> {GoodValue, BadValue}] : keys \in SUBSET OptionKeys}
InitializationOptions ==
    {[some |-> FALSE, json |-> << >>]}
    \cup {[some |-> TRUE, json |-> j] : j \in Jsons}
InitializeParams ==
    [root_uri : RootUris,
     workspace_folders : WorkspaceFolders,
     initialization_options : InitializationOptions]

\* Url::to_file_path: only a file path converts.
IsFilePath(uri) == uri \in {"/project", "/w1", "/w2"}

RECURSIVE FilterPaths(_)
FilterPaths(folders) ==
    IF folders = <<>> THEN <<>>
    ELSE IF IsFilePath(Head(folders))
         THEN <<Head(folders)>> \o FilterPaths(Tail(folders))
         ELSE FilterPaths(Tail(folders))

\* root_path: the root uri as a path, or the current directory.
RootPath(params) ==
    IF params.root_uri # NoUri /\ IsFilePath(params.root_uri)
    THEN params.root_uri ELSE "/cwd"

\* workspace_roots: the folders that are paths, or [root_path] if none.
WorkspaceRoots(params) ==
    LET roots == IF params.workspace_folders.some
                 THEN FilterPaths(params.workspace_folders.folders)
                 ELSE <<>>
    IN  IF roots # <<>> THEN roots ELSE <<RootPath(params)>>

\* Configure that sends no warning when the update fails.
Configure_silent(params, sender) ==
    LET config0 == ConfigNew(RootPath(params), WorkspaceRoots(params))
        opts == params.initialization_options
        u == ConfigUpdate(config0, opts.json)
    IN  IF ~opts.some
        THEN [config |-> config0, sender |-> sender, update |-> "NoOptions"]
        ELSE IF u.ok
             THEN [config |-> u.config, sender |-> sender, update |-> "Ok"]
             ELSE [config |-> u.config, sender |-> sender, update |-> "Failed"]

\* Configure falling back to a configuration for the current directory
\* when the update fails.
Configure_fallback(params, sender) ==
    LET config0 == ConfigNew(RootPath(params), WorkspaceRoots(params))
        opts == params.initialization_options
        u == ConfigUpdate(config0, opts.json)
    IN  IF ~opts.some
        THEN [config |-> config0, sender |-> sender, update |-> "NoOptions"]
        ELSE IF u.ok
             THEN [config |-> u.config, sender |-> sender, update |-> "Ok"]
             ELSE [config |-> ConfigNew("/cwd", <<"/cwd">>),
                   sender |-> Append(sender, ShowMessageWarning),
                   update |-> "Failed"]

\* Config::new, then config.update(json) if initialization_options is
\* Some; a failed update sends one ShowMessage warning and main goes on.
Configure(params, sender) ==
    LET config0 == ConfigNew(RootPath(params), WorkspaceRoots(params))
        opts == params.initialization_options
        u == ConfigUpdate(config0, opts.json)
    IN  IF ~opts.some
        THEN [config |-> config0, sender |-> sender, update |-> "NoOptions"]
        ELSE IF u.ok
             THEN [config |-> u.config, sender |-> sender, update |-> "Ok"]
             ELSE [config |-> u.config,
                   sender |-> Append(sender, ShowMessageWarning),
                   update |-> "Failed"]

\* The InitializeResult sent by connection.initialize_finish.
InitializeId == 0
InitializeResponse == ResponseOk(InitializeId)

\* The InitializeParams the event loop's specification starts from.
DefaultParams ==
    [root_uri |-> "/project",
     workspace_folders |-> [some |-> FALSE, folders |-> <<>>],
     initialization_options |-> [some |-> FALSE, json |-> << >>]]

\* ---------------------------------------------------------------- state
VARIABLES
    pc,                  \* "Startup", "Configured", "Running", "Terminated"
    result,              \* what main/run returned once Terminated
    initialize_params,   \* the client's InitializeParams
    config_read,         \* the configuration as read before config.update
    update_result,       \* outcome of the startup config.update
    config,              \* GlobalState.config
    shutdown_requested,  \* GlobalState.shutdown_requested
    req_queue,           \* GlobalState.req_queue.incoming
    outbox,              \* connection.sender: messages sent to the client
    inbox,               \* connection.receiver: messages not yet dequeued
    closed,              \* the client closed the inbound channel
    sent,                \* number of messages the client has sent
    last,                \* record of the loop iteration that ran last
    dequeued_requests    \* the Requests dequeued so far, in order

vars == <<pc, result, initialize_params, config_read, update_result, config,
          shutdown_requested, req_queue, outbox, inbox, closed, sent, last,
          dequeued_requests>>

startupVars == <<initialize_params, config_read, update_result>>
serverVars == <<config, shutdown_requested, req_queue, outbox>>

Disconnected ==
    [kind |-> "Disconnected", id |-> 0, method |-> "", params |-> Params(TRUE, 0)]

\* The record kept of one loop iteration: the event, the state before it,
\* the registry right after register_request, what was sent, which
\* handlers ran, what the handler reported, and the error handle_event
\* returned.
Iteration(msg, gs0, registered, gs1, outcome, error) ==
    [msg |-> msg,
     pre |-> [config |-> gs0.config,
              shutdown_requested |-> gs0.shutdown_requested,
              req_queue |-> gs0.req_queue],
     registered |-> registered,
     sent |-> gs1.sender,
     calls |-> gs1.calls,
     outcome |-> outcome,
     error |-> error]

\* The GlobalState a loop iteration starts from; sender and calls collect
\* what this iteration sends and invokes.
CurrentState ==
    [config |-> config,
     shutdown_requested |-> shutdown_requested,
     req_queue |-> req_queue,
     sender |-> <<>>,
     calls |-> <<>>]

NoIteration == Iteration(NoMessage, GlobalStateNew(<<>>, ConfigNew("", <<>>)), {},
                         GlobalStateNew(<<>>, ConfigNew("", <<>>)), "Ok", NoError)

\* next_event taking the newest message of the channel instead of the
\* oldest.
next_event_newest(queue) ==
    [event |-> queue[Len(queue)], rest |-> SubSeq(queue, 1, Len(queue) - 1)]

\* GlobalState::next_event on a channel that holds a message: the oldest
\* message, and the channel without it.
next_event(queue) == [event |-> Head(queue), rest |-> Tail(queue)]

\* ------------------------------------------------------- initial states
\* main() has received the client's InitializeParams.
MainInit ==
    /\ pc = "Startup"
    /\ result = "None"
    /\ initialize_params \in InitializeParams
    /\ config_read = ConfigNew("", <<>>)
    /\ update_result = "NotAttempted"
    /\ config = ConfigNew("", <<>>)
    /\ shutdown_requested = FALSE
    /\ req_queue = {}
    /\ outbox = <<>>
    /\ inbox = <<>>
    /\ closed = FALSE
    /\ sent = 0
    /\ last = NoIteration
    /\ dequeued_requests = <<>>

\* run() has been called: GlobalState::new(connection.sender, config) for
\* a client that sent DefaultParams.
Init ==
    /\ pc = "Running"
    /\ result = "None"
    /\ initialize_params = DefaultParams
    /\ config_read = ConfigNew(RootPath(DefaultParams), WorkspaceRoots(DefaultParams))
    /\ update_result = Configure(DefaultParams, <<>>).update
    /\ config = GlobalStateNew(<<>>, Configure(DefaultParams, <<>>).config).config
    /\ shutdown_requested =
           GlobalStateNew(<<>>, Configure(DefaultParams, <<>>).config).shutdown_requested
    /\ req_queue = GlobalStateNew(<<>>, Configure(DefaultParams, <<>>).config).req_queue
    /\ outbox = <<InitializeResponse>>
    /\ inbox = <<>>
    /\ closed = FALSE
    /\ sent = 0
    /\ last = NoIteration
    /\ dequeued_requests = <<>>

\* --------------------------------------------------------- main actions
\* main, from Config::new to the end of the configuration update.
MainConfigure ==
    /\ pc = "Startup"
    /\ LET c == Configure(initialize_params, outbox)
       IN  /\ config_read' = ConfigNew(RootPath(initialize_params),
                                       WorkspaceRoots(initialize_params))
           /\ config' = c.config
           /\ outbox' = c.sender
           /\ update_result' = c.update
    /\ pc' = "Configured"
    /\ UNCHANGED <<result, initialize_params, shutdown_requested, req_queue,
                   inbox, closed, sent, last, dequeued_requests>>

\* connection.initialize_finish: fails when the channel is disconnected
\* and main returns the error; otherwise run is entered.
MainInitializeFinish ==
    /\ pc = "Configured"
    /\ IF closed
       THEN /\ pc' = "Terminated"
            /\ result' = "InitializeError"
            /\ outbox' = outbox
       ELSE /\ pc' = "Running"
            /\ result' = result
            /\ outbox' = Append(outbox, InitializeResponse)
    /\ UNCHANGED <<startupVars, config, shutdown_requested, req_queue,
                   inbox, closed, sent, last, dequeued_requests>>

\* ------------------------------------------------------- client actions
\* The request ids the client has used so far.
UsedIds ==
    { dequeued_requests[i].id : i \in DOMAIN dequeued_requests }
    \cup { inbox[i].id : i \in { j \in DOMAIN inbox : inbox[j].kind = "Request" } }

\* Request ids are opaque: the client reuses an id or takes the next
\* unused number.
ClientMayUse(id) == \A j \in 1 .. (id - 1) : j \in UsedIds

\* The client sends a message while the server is running.
ClientSend ==
    /\ pc = "Running"
    /\ ~closed
    /\ sent < MaxMsgs
    /\ Len(inbox) < MaxQueue
    /\ \E m \in Messages :
          /\ m.kind = "Request" => ClientMayUse(m.id)
          /\ inbox' = Append(inbox, m)
    /\ sent' = sent + 1
    /\ UNCHANGED <<pc, result, startupVars, serverVars, closed, last,
                   dequeued_requests>>

\* The client closes its end of the channel.
ClientClose ==
    /\ pc # "Terminated"
    /\ ~closed
    /\ closed' = TRUE
    /\ UNCHANGED <<pc, result, startupVars, serverVars, inbox, sent, last,
                   dequeued_requests>>

\* --------------------------------------------------------- loop actions
\* RunDisconnected returning Ok(()) when the channel is closed.
RunDisconnected_ok ==
    /\ pc = "Running"
    /\ inbox = <<>>
    /\ closed
    /\ pc' = "Terminated"
    /\ result' = "Ok"
    /\ last' = Iteration(Disconnected, CurrentState, req_queue, CurrentState,
                         "Ok", NoError)
    /\ UNCHANGED <<startupVars, serverVars, inbox, closed, sent, dequeued_requests>>

\* run: next_event returned None (the channel is closed and drained).
RunDisconnected ==
    /\ pc = "Running"
    /\ inbox = <<>>
    /\ closed
    /\ pc' = "Terminated"
    /\ result' = "ConnectionTerminated"
    /\ last' = Iteration(Disconnected, CurrentState, req_queue, CurrentState,
                         "Ok", NoError)
    /\ UNCHANGED <<startupVars, serverVars, inbox, closed, sent, dequeued_requests>>

\* RunExit that reports an error for an exit without a prior shutdown.
RunExit_strict ==
    /\ pc = "Running"
    /\ inbox # <<>>
    /\ IsExit(next_event(inbox).event)
    /\ inbox' = next_event(inbox).rest
    /\ pc' = "Terminated"
    /\ result' = IF shutdown_requested THEN "Ok" ELSE "ExitWithoutShutdown"
    /\ last' = Iteration(next_event(inbox).event, CurrentState, req_queue,
                         CurrentState, "Ok", NoError)
    /\ UNCHANGED <<startupVars, serverVars, closed, sent, dequeued_requests>>

\* run: the dequeued event is the exit notification.
RunExit ==
    /\ pc = "Running"
    /\ inbox # <<>>
    /\ IsExit(next_event(inbox).event)
    /\ inbox' = next_event(inbox).rest
    /\ pc' = "Terminated"
    /\ result' = "Ok"
    /\ last' = Iteration(next_event(inbox).event, CurrentState, req_queue,
                         CurrentState, "Ok", NoError)
    /\ UNCHANGED <<startupVars, serverVars, closed, sent, dequeued_requests>>

\* run: any other event goes through handle_event; its error ends run.
RunHandle(msg, outcome) ==
    LET r == handle_event(CurrentState, msg, outcome)
        registered == IF msg.kind = "Request"
                      THEN register_request(CurrentState, msg).req_queue
                      ELSE req_queue
        \* what the invoked handler returned; Ok(()) for the handlers that
        \* cannot fail and when none was invoked
        reported == IF r.gs.calls # <<>>
                       /\ r.gs.calls[1] \notin {"ShutdownHandler", "handle_cancel"}
                    THEN outcome ELSE "Ok"
    IN  /\ inbox' = next_event(inbox).rest
        /\ dequeued_requests' = IF msg.kind = "Request"
                                THEN Append(dequeued_requests, msg)
                                ELSE dequeued_requests
        /\ config' = r.gs.config
        /\ shutdown_requested' = r.gs.shutdown_requested
        /\ req_queue' = r.gs.req_queue
        /\ outbox' = outbox \o r.gs.sender
        /\ last' = Iteration(msg, CurrentState, registered, r.gs, reported, r.error)
        /\ IF r.error = NoError
           THEN /\ pc' = pc
                /\ result' = result
           ELSE /\ pc' = "Terminated"
                /\ result' = r.error
        /\ UNCHANGED <<startupVars, closed, sent>>

RunRequest ==
    /\ pc = "Running"
    /\ inbox # <<>>
    /\ next_event(inbox).event.kind = "Request"
    /\ \E outcome \in HandlerOutcomes : RunHandle(next_event(inbox).event, outcome)

RunNotification ==
    /\ pc = "Running"
    /\ inbox # <<>>
    /\ next_event(inbox).event.kind = "Notification"
    /\ ~IsExit(next_event(inbox).event)
    /\ \E outcome \in HandlerOutcomes : RunHandle(next_event(inbox).event, outcome)

RunResponse ==
    /\ pc = "Running"
    /\ inbox # <<>>
    /\ next_event(inbox).event.kind = "Response"
    /\ RunHandle(next_event(inbox).event, "Ok")

\* ------------------------------------------------------- specifications
\* The event loop.
Next ==
    \/ ClientSend
    \/ ClientClose
    \/ RunDisconnected
    \/ RunExit
    \/ RunRequest
    \/ RunNotification
    \/ RunResponse

Spec == Init /\ [][Next]_vars

\* main() up to the call of run.
MainNext ==
    \/ MainConfigure
    \/ MainInitializeFinish
    \/ ClientClose

MainSpec == MainInit /\ [][MainNext]_vars

TypeOK ==
    /\ pc \in {"Startup", "Configured", "Running", "Terminated"}
    /\ shutdown_requested \in BOOLEAN
    /\ sent \in 0 .. MaxMsgs
    /\ Len(inbox) <= MaxQueue

\* The loop thread runs whenever an event is ready or the channel is
\* closed: the blocking receive is its only suspension point.
Run ==
    \/ RunDisconnected
    \/ RunExit
    \/ RunRequest
    \/ RunNotification
    \/ RunResponse

\* A failed receive returns at once: the loop cannot stay suspended on a
\* channel that is closed and drained.
LiveSpec == Spec /\ WF_vars(RunDisconnected)

\* ------------------------------------------------------------ properties
\* The iteration that ran last handled a Request / a Notification.
LastIsRequest == last.msg.kind = "Request"
LastIsNotification == last.msg.kind = "Notification"
\* The Responses the last iteration sent for the id of its request.
LastResponses ==
    SelectSeq(last.sent, LAMBDA m : m.kind = "Response" /\ m.id = last.msg.id)
\* A binding (shutdown, completion) claims the last iteration's request.
LastIsClaimed == LastIsRequest /\ last.msg.method \in {Shutdown, Completion}

\* C1: once shutdown_requested is true, a Request whose method is not
\* shutdown is answered with InvalidRequest and reaches no handler.
C1_RejectedAfterShutdown ==
    (LastIsRequest /\ last.pre.shutdown_requested /\ last.msg.method # Shutdown)
        => /\ last.sent = <<ResponseErr(last.msg.id, "InvalidRequest")>>
           /\ last.calls = <<>>

\* C2: a Request claimed by a binding whose payload decodes gets exactly
\* one Response, carrying the request's id, in every server state.
C2_ExactlyOneResponse ==
    (LastIsClaimed /\ last.msg.params.wellFormed)
        => /\ Len(last.sent) = 1
           /\ last.sent[1].kind = "Response"
           /\ last.sent[1].id = last.msg.id

\* A decodable completion request handled while shutdown was pending.
C2_Witness ==
    /\ LastIsClaimed
    /\ last.msg.params.wellFormed
    /\ last.msg.method = Completion
    /\ last.pre.shutdown_requested
    /\ Len(last.sent) = 1

\* C3: handling one Request sends at most one Response for it, and
\* handling anything else sends none.
C3_AtMostOneResponse ==
    /\ LastIsRequest => Len(LastResponses) <= 1 /\ Len(last.sent) <= 1
    /\ ~LastIsRequest => last.sent = <<>>

\* A request that arrived while shutdown was pending, was answered by the
\* guard and was still handed to its handler.
C3_Witness ==
    /\ LastIsRequest
    /\ last.pre.shutdown_requested
    /\ last.calls = <<"handle_completion">>
    /\ Len(LastResponses) = 1

\* The exit notification has been dequeued.
ExitDequeued == LastIsNotification /\ last.msg.method = Exit

\* C4: dequeuing the exit notification ends the loop at once: no handler
\* is invoked for it, nothing is sent for it, and from then on no message
\* is dequeued and nothing more is sent.
C4_ExitTerminates ==
    /\ [](ExitDequeued =>
            pc = "Terminated" /\ last.calls = <<>> /\ last.sent = <<>>)
    /\ [][ExitDequeued =>
            inbox' = inbox /\ outbox' = outbox /\ last' = last]_vars

\* The loop has exited with a request still queued behind the exit.
C4_Witness ==
    /\ ExitDequeued
    /\ pc = "Terminated"
    /\ inbox # <<>>
    /\ Head(inbox).kind = "Request"

\* C5: when the receive fails on a closed channel the loop terminates
\* with the "Connection was terminated" error; it returns success only
\* for an exit notification, and a closed, drained channel always ends
\* the loop.
C5_DisconnectIsFatal ==
    /\ [](last.msg = Disconnected =>
            pc = "Terminated" /\ result = "ConnectionTerminated")
    /\ []((pc = "Terminated" /\ result = "Ok") => ExitDequeued)
    /\ ((closed /\ inbox = <<>> /\ pc = "Running") ~> pc = "Terminated")

\* The channel was closed with no exit sent and the loop has ended, after
\* handling at least one message.
C5_Witness ==
    /\ last.msg = Disconnected
    /\ result = "ConnectionTerminated"
    /\ sent > 0

\* C6: shutdown_requested starts false and never goes back to false.
C6_ShutdownLatch ==
    /\ ~shutdown_requested
    /\ [][shutdown_requested => shutdown_requested']_vars

\* A second Shutdown request was handled with the flag already set.
C6_Witness ==
    /\ shutdown_requested
    /\ LastIsRequest
    /\ last.msg.method = Shutdown
    /\ last.calls = <<"ShutdownHandler">>
    /\ last.pre.shutdown_requested

\* C7: a Request claimed by a binding whose payload does not decode gets
\* exactly one InvalidParams Response, no handler runs, and configuration,
\* shutdown_requested and the registry are as before the iteration.
C7_DecodeFailure ==
    (LastIsClaimed /\ ~last.msg.params.wellFormed)
        => /\ last.sent = <<ResponseErr(last.msg.id, "InvalidParams")>>
           /\ last.calls = <<>>
           /\ config = last.pre.config
           /\ shutdown_requested = last.pre.shutdown_requested
           /\ req_queue = last.pre.req_queue

\* A registry with at most one entry per request id.
OnePerId(queue) == \A e1, e2 \in queue : e1.id = e2.id => e1 = e2

\* C8: the registry never holds two entries of one id, neither between
\* messages nor right after a request has been registered.
C8_OneEntryPerId == OnePerId(req_queue) /\ OnePerId(last.registered)

\* A request arrived whose id was still outstanding under another method.
C8_Witness ==
    /\ LastIsRequest
    /\ \E e \in last.pre.req_queue :
          e.id = last.msg.id /\ e.method # last.msg.method
    /\ Cardinality(last.registered) = Cardinality(last.pre.req_queue)

\* The last iteration handled a decodable Cancel notification.
LastIsCancel ==
    LastIsNotification /\ last.msg.method = Cancel /\ last.msg.params.wellFormed

\* C9: handling Cancel for an id removes exactly that id's entry (none if
\* there is none), changes nothing else, sends nothing and leaves the
\* loop running.
C9_CancelEffect ==
    LastIsCancel
        => /\ req_queue = { e \in last.pre.req_queue : e.id # last.msg.params.id }
           /\ config = last.pre.config
           /\ shutdown_requested = last.pre.shutdown_requested
           /\ last.sent = <<>>
           /\ last.error = NoError
           /\ pc = "Running"

\* A Cancel removed an outstanding entry and left another one in place.
C9_Witness ==
    /\ LastIsCancel
    /\ \E e \in last.pre.req_queue : e.id = last.msg.params.id
    /\ req_queue # {}
    /\ req_queue # last.pre.req_queue

\* C10: after a failed configuration update the configuration is the one
\* read before the attempt.
C10_FailedUpdateKeepsConfig ==
    update_result = "Failed" => config = config_read

\* An update failed on a payload one of whose keys would have decoded,
\* for a client that gave its own root and workspace folders.
C10_Witness ==
    /\ update_result = "Failed"
    /\ \E k \in DOMAIN initialize_params.initialization_options.json :
          initialize_params.initialization_options.json[k] = GoodValue
    /\ config.root_path = "/project"
    /\ Len(config.workspace_roots) = 2

\* The ids of the Responses sent to the client's requests, in send order.
ResponseIds ==
    LET rs == SelectSeq(outbox, LAMBDA m : m.kind = "Response" /\ m.id \in RequestIds)
    IN  [i \in 1 .. Len(rs) |-> rs[i].id]

\* The ids of the requests of reqs that are due a Response, in order: those
\* a binding claims and those that arrive while shutdown is pending.
RECURSIVE AnsweredIds(_, _)
AnsweredIds(reqs, pending) ==
    IF reqs = <<>> THEN <<>>
    ELSE LET r == Head(reqs)
             answered == r.method \in {Shutdown, Completion} \/ pending
             sets == r.method = Shutdown /\ r.params.wellFormed
         IN  (IF answered THEN <<r.id>> ELSE <<>>)
                 \o AnsweredIds(Tail(reqs), pending \/ sets)

\* C11: messages are handled one at a time in delivery order: each step of
\* the loop dequeues exactly the oldest message and handles it, the client
\* only appends, and the Responses sent are those of the answered requests
\* in the order the requests were dequeued.
C11_DeliveryOrder ==
    /\ [](ResponseIds = AnsweredIds(dequeued_requests, FALSE))
    /\ [][Len(inbox') < Len(inbox) =>
            inbox' = Tail(inbox) /\ last'.msg = Head(inbox)]_vars
    /\ [][Len(inbox') > Len(inbox) =>
            SubSeq(inbox', 1, Len(inbox)) = inbox]_vars

\* Two requests with different ids were answered in the order they came,
\* with a third message still waiting.
C11_Witness ==
    /\ ResponseIds = <<1, 2>>
    /\ Len(dequeued_requests) = 2
    /\ inbox # <<>>

\* C12: handling a Notification sends no Response (nothing at all),
\* whether it is unclaimed, fails to decode, or its handler succeeds or
\* fails.
C12_NotificationSilent ==
    /\ [](LastIsNotification => last.sent = <<>>)
    /\ [][last'.msg.kind = "Notification" /\ Len(inbox') < Len(inbox)
            => outbox' = outbox]_vars

\* A claimed notification whose handler reported a failure.
C12_Witness ==
    /\ LastIsNotification
    /\ last.error = "HandlerError"
    /\ last.calls # <<>>
    /\ Len(outbox) > 1

\* Methods the notification dispatcher has a binding for.
NotificationMethods ==
    {Cancel, DidOpenTextDocument, DidCloseTextDocument, DidChangeTextDocument}

\* C13 as stated: the loop ends with success exactly on exit and otherwise
\* only on a closed channel; no handling error ends it.
C13_OnlyExitOrDisconnect ==
    /\ ExitDequeued <=> (pc = "Terminated" /\ result = "Ok")
    /\ pc = "Terminated" =>
          \/ result = "Ok"
          \/ result = "ConnectionTerminated" /\ last.msg = Disconnected
    /\ last.error # NoError => pc = "Running"

\* C13 amended: the loop ends with success exactly on exit, with the
\* connection error on a closed and drained channel, and with the
\* propagated error when a claimed notification fails to decode or its
\* handler fails; handling a request or a response never ends it.
C13_Terminations ==
    /\ ExitDequeued <=> (pc = "Terminated" /\ result = "Ok")
    /\ pc = "Terminated" =>
          \/ result = "Ok"
          \/ /\ result = "ConnectionTerminated"
             /\ last.msg = Disconnected
             /\ closed
             /\ inbox = <<>>
          \/ /\ result \in {"DecodeError", "HandlerError"}
             /\ LastIsNotification
             /\ last.msg.method \in NotificationMethods
             /\ last.error = result
    /\ last.error # NoError => pc = "Terminated" /\ result = last.error
    /\ (LastIsNotification /\ last.msg.method \in NotificationMethods
            /\ (~last.msg.params.wellFormed \/ last.outcome # "Ok"))
          => pc = "Terminated" /\ result \in {"DecodeError", "HandlerError"}
    /\ (LastIsRequest \/ last.msg.kind = "Response") =>
          last.error = NoError /\ pc = "Running"

\* The loop ended on a Cancel notification whose payload did not decode,
\* with the channel still open.
C13_Witness ==
    /\ pc = "Terminated"
    /\ result = "DecodeError"
    /\ last.msg.method = Cancel
    /\ ~closed

\* The handler registered for a method, per category of message.
RegisteredHandler(kind, method) ==
    CASE kind = "Request" /\ method = Shutdown -> <<"ShutdownHandler">>
      [] kind = "Request" /\ method = Completion -> <<"handle_completion">>
      [] kind = "Notification" /\ method = Cancel -> <<"handle_cancel">>
      [] kind = "Notification" /\ method = DidOpenTextDocument ->
            <<"handle_did_open_text_document">>
      [] kind = "Notification" /\ method = DidCloseTextDocument ->
            <<"handle_did_close_text_document">>
      [] kind = "Notification" /\ method = DidChangeTextDocument ->
            <<"handle_did_change_text_document">>
      [] OTHER -> <<>>

\* C14: for every message at most one handler is invoked, and it is the
\* handler registered for the message's method: the one of the first
\* binding that matches, for a payload that decodes; none otherwise.
C14_FirstMatch ==
    /\ Len(last.calls) <= 1
    /\ last.calls =
          IF last.msg.params.wellFormed /\ ~ExitDequeued
          THEN RegisteredHandler(last.msg.kind, last.msg.method)
          ELSE <<>>

\* A didChange notification went past three bindings to the last one.
C14_Witness ==
    /\ LastIsNotification
    /\ last.msg.method = DidChangeTextDocument
    /\ last.calls = <<"handle_did_change_text_document">>
    /\ last.error = NoError

\* The registry holds an entry for the id of the last iteration's request.
LastIdOutstanding == \E e \in req_queue : e.id = last.msg.id

C16_NotificationErrorPropagates ==
    /\ (LastIsNotification /\ last.msg.method \in NotificationMethods
            /\ ~last.msg.params.wellFormed)
          => /\ last.error = "DecodeError"
             /\ last.calls = <<>>
             /\ pc = "Terminated"
             /\ result = "DecodeError"
    /\ (LastIsNotification /\ last.outcome # "Ok")
          => /\ last.error = "HandlerError"
             /\ last.calls = RegisteredHandler("Notification", last.msg.method)
             /\ pc = "Terminated"
             /\ result = "HandlerError"

\* The first text-document binding's handler failed on a didOpen and run
\* returned that error with a message still queued.
C16_Witness ==
    /\ LastIsNotification
    /\ last.msg.method = DidOpenTextDocument
    /\ last.outcome # "Ok"
    /\ result = "HandlerError"
    /\ inbox # <<>>

\* The last iteration dispatched a message no binding is registered for.
LastIsUnclaimed ==
    (LastIsRequest \/ LastIsNotification) /\ last.msg.method = Unregistered

\* C17: a Request or Notification that no binding claims is finished
\* silently: no handler runs, handle_event returns no error, configuration
\* and shutdown_requested are unchanged, the loop keeps running, and
\* (unless the shutdown guard answers the request) nothing is sent.
C17_UnclaimedSilent ==
    LastIsUnclaimed
        => /\ last.calls = <<>>
           /\ last.error = NoError
           /\ config = last.pre.config
           /\ shutdown_requested = last.pre.shutdown_requested
           /\ pc = "Running"
           /\ result = "None"
           /\ (LastIsNotification \/ ~last.pre.shutdown_requested)
                 => last.sent = <<>>

\* An unclaimed notification was finished after an unclaimed request and
\* the loop is ready for the message that waits.
C17_Witness ==
    /\ LastIsUnclaimed
    /\ LastIsNotification
    /\ Len(dequeued_requests) = 1
    /\ dequeued_requests[1].method = Unregistered
    /\ inbox # <<>>
    /\ pc = "Running"

\* The ShowMessage warnings on the outbound channel.
Warnings == SelectSeq(outbox, LAMBDA m : m = ShowMessageWarning)

C19_ExitIsSuccess ==
    /\ [](ExitDequeued =>
            /\ result = "Ok"
            /\ pc = "Terminated"
            /\ shutdown_requested = last.pre.shutdown_requested)
    /\ [][(pc = "Running" /\ inbox # <<>> /\ Head(inbox).method = Exit
            /\ Len(inbox') < Len(inbox)) => result' = "Ok"]_vars

\* The loop exited with success although no Shutdown request was ever
\* processed, after it had handled a request.
C19_Witness ==
    /\ ExitDequeued
    /\ result = "Ok"
    /\ ~shutdown_requested
    /\ dequeued_requests # <<>>

\* C20: the shutdown guard is on the request path only.  With
\* shutdown_requested set, a decodable notification other than exit still
\* reaches its handler and a decodable Shutdown request is still claimed
\* by the shutdown handler and answered Ok, not InvalidRequest.
C20_GuardOnlyOnRequests ==
    last.pre.shutdown_requested =>
        /\ (LastIsNotification /\ ~ExitDequeued /\ last.msg.params.wellFormed)
              => /\ last.calls = RegisteredHandler("Notification", last.msg.method)
                 /\ last.sent = <<>>
                 /\ last.error = (IF last.outcome = "Ok" THEN NoError ELSE "HandlerError")
        /\ (LastIsRequest /\ last.msg.method = Shutdown /\ last.msg.params.wellFormed)
              => /\ last.calls = <<"ShutdownHandler">>
                 /\ last.sent = <<ResponseOk(last.msg.id)>>
                 /\ shutdown_requested

\* A Cancel was handled by handle_cancel after two Shutdown requests, the
\* second of which was answered Ok.
C20_Witness ==
    /\ last.pre.shutdown_requested
    /\ LastIsCancel
    /\ last.calls = <<"handle_cancel">>
    /\ Len(dequeued_requests) = 2
    /\ dequeued_requests[2].method = Shutdown
    /\ outbox[Len(outbox)] = ResponseOk(dequeued_requests[2].id)

====
